---------------------------- MODULE Spec2Model ----------------------------
(***************************************************************************)
(* The full-spectrum evaporation integrator of oovac/hole                  *)
(* (src/fullsim/evap_fullsim.py) as a state machine, with the greybody     *)
(* factor and the spectral integral it calls (src/fullsim/greybody.py,     *)
(* ft_model.py) and two functions of the toy pipeline (src/toy/hole).      *)
(*                                                                         *)
(* Numbers.  The program computes in IEEE-754 binary64.  The model keeps   *)
(* what the code depends on: a floating radix point (so that 1e-30 is      *)
(* absorbed by M**2 but not by 0.0), round-to-nearest, overflow to inf,    *)
(* underflow to 0, NaN propagation, and the difference between Python's    *)
(* float division (ZeroDivisionError) and numpy's (inf / nan).  A finite   *)
(* number is m * 10^e with m = 0 or 10^7 <= |m| < 10^8: a decimal float    *)
(* with an 8-digit significand, so every product and quotient fits TLC's   *)
(* 32-bit integers.                                                        *)
(***************************************************************************)
EXTENDS Integers, Sequences, FiniteSets, TLC

-----------------------------------------------------------------------------
(* Floating-point values                                                   *)

Fin(m, e) == [k |-> "fin", m |-> m, e |-> e]
Zero   == Fin(0, 0)
PosInf == [k |-> "inf", m |-> 1, e |-> 0]
NegInf == [k |-> "inf", m |-> -1, e |-> 0]
NaN    == [k |-> "nan", m |-> 0, e |-> 0]
\* a local that has not been assigned yet
Unset  == [k |-> "unset", m |-> 0, e |-> 0]

IAbs(i) == IF i < 0 THEN -i ELSE i
ISgn(i) == IF i < 0 THEN -1 ELSE IF i > 0 THEN 1 ELSE 0
InfOf(s) == IF s < 0 THEN NegInf ELSE PosInf

\* |m| * 10^e as a float: the significand is brought to 8 digits, rounding
\* half away from zero; beyond 1e308 the value is inf, below 1e-324 it is 0.
RECURSIVE RoundNorm(_, _)
RoundNorm(m, e) ==
    IF m = 0 THEN Zero
    ELSE IF IAbs(m) >= 10^8
         THEN RoundNorm(ISgn(m) * ((IAbs(m) + 5) \div 10), e + 1)
    ELSE IF IAbs(m) < 10^7 THEN RoundNorm(m * 10, e - 1)
    ELSE IF e + 7 > 308 THEN InfOf(m)
    ELSE IF e + 7 < -324 THEN Zero
    ELSE Fin(m, e)

IsNaN(a) == a.k = "nan"
IsInf(a) == a.k = "inf"
\* np.isfinite
isfinite(a) == a.k = "fin"
Sign(a) == ISgn(a.m)

fneg(a) == IF a.k = "nan" THEN a ELSE [a EXCEPT !.m = -a.m]
fabs(a) == IF a.k = "nan" THEN a ELSE [a EXCEPT !.m = IAbs(a.m)]

\* Order of two floats that are not NaN: -1, 0 or 1.
Cmp(a, b) ==
    IF a.k = "inf" \/ b.k = "inf"
    THEN (IF a.k = "inf" /\ b.k = "inf" THEN ISgn(a.m - b.m)
          ELSE IF a.k = "inf" THEN a.m ELSE -b.m)
    ELSE IF Sign(a) # Sign(b) THEN ISgn(Sign(a) - Sign(b))
    ELSE IF a.m = 0 THEN 0
    ELSE IF a.e # b.e THEN Sign(a) * ISgn(a.e - b.e)
    ELSE ISgn(a.m - b.m)

\* The comparisons of the language: all false when an operand is NaN.
Gt(a, b) == ~IsNaN(a) /\ ~IsNaN(b) /\ Cmp(a, b) = 1
Lt(a, b) == ~IsNaN(a) /\ ~IsNaN(b) /\ Cmp(a, b) = -1
Ge(a, b) == ~IsNaN(a) /\ ~IsNaN(b) /\ Cmp(a, b) >= 0
Le(a, b) == ~IsNaN(a) /\ ~IsNaN(b) /\ Cmp(a, b) <= 0
Eq(a, b) == ~IsNaN(a) /\ ~IsNaN(b) /\ Cmp(a, b) = 0

\* a + b
fadd(a, b) ==
    IF IsNaN(a) \/ IsNaN(b) THEN NaN
    ELSE IF IsInf(a) /\ IsInf(b) THEN (IF a.m = b.m THEN a ELSE NaN)
    ELSE IF IsInf(a) THEN a
    ELSE IF IsInf(b) THEN b
    ELSE IF a.m = 0 THEN b
    ELSE IF b.m = 0 THEN a
    ELSE LET hi == IF a.e >= b.e THEN a ELSE b
             lo == IF a.e >= b.e THEN b ELSE a
             d  == hi.e - lo.e
         IN  IF d > 9 THEN hi
             ELSE LET sh == Sign(lo) * ((IAbs(lo.m) * 10 + ((10^d) \div 2)) \div (10^d))
                  IN  RoundNorm(hi.m * 10 + sh, hi.e - 1)

\* a - b
fsub(a, b) == fadd(a, fneg(b))

\* a * b
fmul(a, b) ==
    IF IsNaN(a) \/ IsNaN(b) THEN NaN
    ELSE IF IsInf(a) \/ IsInf(b)
         THEN (IF Sign(a) * Sign(b) = 0 THEN NaN ELSE InfOf(Sign(a) * Sign(b)))
    ELSE IF a.m = 0 \/ b.m = 0 THEN Zero
    ELSE LET x  == IAbs(a.m)
             y  == IAbs(b.m)
             x1 == x \div 10^4
             x0 == x % 10^4
             y1 == y \div 10^4
             y0 == y % 10^4
             c2 == x1 * y1
             c1 == x1 * y0 + x0 * y1
             c0 == x0 * y0
             \* floor(x*y / 10^7) when that has nine digits, else floor(x*y / 10^6)
             h7 == c2 * 10 + ((c1 + (c0 \div 10^4)) \div 10^3)
             h6 == c2 * 100 + ((c1 + (c0 \div 10^4)) \div 10^2)
         IN  IF h7 >= 10^8 THEN RoundNorm(Sign(a) * Sign(b) * h7, a.e + b.e + 7)
             ELSE RoundNorm(Sign(a) * Sign(b) * h6, a.e + b.e + 6)

\* n further digits of the quotient r / b appended to acc
RECURSIVE DivDigits(_, _, _, _)
DivDigits(r, b, n, acc) ==
    IF n = 0 THEN acc
    ELSE DivDigits((r * 10) % b, b, n - 1, acc * 10 + ((r * 10) \div b))

\* The quotient of two finite non-zero floats.
FinDiv(a, b) ==
    LET x   == IAbs(a.m)
        y   == IAbs(b.m)
        sh  == IF x < y THEN 1 ELSE 0
        num == IF x < y THEN x * 10 ELSE x
        q   == DivDigits(num % y, y, 8, num \div y)
    IN  RoundNorm(Sign(a) * Sign(b) * q, a.e - b.e - 8 - sh)

\* numpy's a / b: a zero divisor gives inf or nan (with a RuntimeWarning).
NpDiv(a, b) ==
    IF IsNaN(a) \/ IsNaN(b) THEN NaN
    ELSE IF IsInf(a) THEN (IF IsInf(b) THEN NaN
                           ELSE InfOf(a.m * (IF Sign(b) < 0 THEN -1 ELSE 1)))
    ELSE IF IsInf(b) THEN Zero
    ELSE IF b.m = 0 THEN (IF a.m = 0 THEN NaN ELSE InfOf(Sign(a)))
    ELSE IF a.m = 0 THEN Zero
    ELSE FinDiv(a, b)

\* Python's a / b on floats raises ZeroDivisionError for a zero divisor.
PyDivRaises(a, b) == b.k = "fin" /\ b.m = 0
PyDiv(a, b) == NpDiv(a, b)

\* Python's max(a, b): a unless b > a.
PyMax(a, b) == IF Gt(b, a) THEN b ELSE a

-----------------------------------------------------------------------------
(* Literals of the source                                                  *)

C_1em30 == Fin(10^7, -37)          \* 1e-30
C_1em3  == Fin(10^7, -10)          \* 1e-3
C_1em4  == Fin(10^7, -11)          \* 1e-4
C_1em6  == Fin(10^7, -13)          \* 1e-6
C_4     == Fin(4 * 10^7, -7)       \* 4.0
C_pi    == Fin(31415927, -7)       \* math.pi
LOG2    == Fin(69314718, -8)       \* math.log(2.0)
k_B_eV_per_K == Fin(86173333, -12) \* 8.617333262e-5

\* FullSimParams defaults
M0Default == Fin(10^7, -7)         \* 1.0
T0Default == Fin(12270000, 5)      \* 1.227e12
NStepsDefault == 8000
\* ft_model.py line 76: def F_of_T(T, n_x=600)
NxDefault == 600

\* The species catalog: what _I_species reads of each entry before the
\* quadrature (mass_eV, in eV), with the statistics and spin it passes on.
species_set ==
    << [name |-> "photon",   g |-> 2, mass_eV |-> Zero,              spin |-> Fin(10^7, -7), fermion |-> FALSE],
       [name |-> "graviton", g |-> 2, mass_eV |-> Zero,              spin |-> Fin(2 * 10^7, -7), fermion |-> FALSE],
       [name |-> "neutrino", g |-> 6, mass_eV |-> Fin(10^7, -8),     spin |-> Fin(5 * 10^7, -8), fermion |-> TRUE],
       [name |-> "e_pm",     g |-> 4, mass_eV |-> Fin(51100000, -2), spin |-> Fin(5 * 10^7, -8), fermion |-> TRUE],
       [name |-> "mu_pm",    g |-> 4, mass_eV |-> Fin(10570000, 1),  spin |-> Fin(5 * 10^7, -8), fermion |-> TRUE],
       [name |-> "pi",       g |-> 3, mass_eV |-> Fin(13960000, 1),  spin |-> Zero, fermion |-> FALSE] >>

-----------------------------------------------------------------------------
(* greybody.py: the greybody factor                                        *)

C_1em9 == Fin(10^7, -16)           \* 1e-9
C_half == Fin(5 * 10^7, -8)        \* 0.5
C_1    == Fin(10^7, -7)            \* 1.0
C_2    == Fin(2 * 10^7, -7)        \* 2.0
C_27   == Fin(27 * 10^6, -6)       \* 27.0
C_40   == Fin(4 * 10^7, -6)        \* 40.0

\* an integer as a float
IntF(n) == RoundNorm(n, 0)

\* y**p for p = 1, 2, 3, ...: inf once the power passes 1e308
RECURSIVE Pow(_, _)
Pow(y, p) == IF p = 1 THEN y ELSE fmul(Pow(y, p - 1), y)

\* line 90: high = 27.0 * np.pi / 4.0
chi_high == NpDiv(fmul(C_27, C_pi), C_4)
\* line 93: low = 4.0 * np.pi
chi_low  == fmul(C_4, C_pi)

\* line 92: abs(s) < 1e-9
IsScalarSpin(s) == Lt(fabs(s), C_1em9)

\* a fallback to the highest exponent
p_of_spin_FallbackSix(s) ==
    IF Lt(fabs(fsub(s, C_half)), C_1em9) THEN 2
    ELSE IF Lt(fabs(fsub(s, C_1)), C_1em9) THEN 4
    ELSE 6

\* lines 98-105: the exponent p of a spin that is not the scalar one
p_of_spin(s) ==
    IF Lt(fabs(fsub(s, C_half)), C_1em9) THEN 2
    ELSE IF Lt(fabs(fsub(s, C_1)), C_1em9) THEN 4
    ELSE IF Lt(fabs(fsub(s, C_2)), C_1em9) THEN 6
    ELSE 2

\* y**p / (1.0 + y**p)
Saturation(y, p) == NpDiv(Pow(y, p), fadd(C_1, Pow(y, p)))

\* chi_s_y(y, s) at one element y of the array
chi_s_y(y, s) ==
    IF IsScalarSpin(s)
    THEN fadd(chi_low, fmul(fsub(chi_high, chi_low), Saturation(y, 2)))
    ELSE fmul(chi_high, Saturation(y, p_of_spin(s)))

-----------------------------------------------------------------------------
(* ft_model.py: the spectral integral                                      *)

C_log10e == Fin(43429448, -8)      \* log10(e)
C_ln10   == Fin(23025851, -7)      \* ln(10)
\* np.exp overflows to inf above ln(1.797e308) = 709.78271
ExpMax   == Fin(70978271, -5)
\* terms of the series behind 10**f, 0 <= f < 1
ExpTerms == 18

\* floor of a float 0 <= z < 1e9
FloorInt(z) ==
    IF z.m = 0 THEN 0
    ELSE IF z.e >= 0 THEN z.m * 10^(z.e)
    ELSE IF -(z.e) > 9 THEN 0
    ELSE z.m \div 10^(-(z.e))

\* 1 + r/1 * (1 + r/2 * (... (1 + r/n * acc))): the exponential series,
\* summed from its last term
RECURSIVE ExpSeries(_, _, _)
ExpSeries(r, n, acc) ==
    IF n = 0 \/ IsNaN(acc) THEN acc
    ELSE ExpSeries(r, n - 1, fadd(C_1, fmul(NpDiv(r, IntF(n)), acc)))

\* np.exp(x) for finite x > 0: 10**k * 10**f with k + f = x * log10(e)
ExpPos(x) ==
    IF Gt(x, ExpMax) THEN PosInf
    ELSE LET z  == fmul(x, C_log10e)
             k  == FloorInt(z)
             f  == fsub(z, IntF(k))
             sv == ExpSeries(fmul(f, C_ln10), ExpTerms, C_1)
         IN  RoundNorm(sv.m, sv.e + k)

\* np.exp(x)
Exp(x) ==
    IF IsNaN(x) THEN NaN
    ELSE IF IsInf(x) THEN (IF x.m > 0 THEN PosInf ELSE Zero)
    ELSE IF x.m = 0 THEN C_1
    ELSE IF x.m < 0 THEN NpDiv(C_1, ExpPos(fneg(x)))
    ELSE ExpPos(x)

\* np.linspace(start, stop, n): arange(n) * step + start with the last
\* element set to stop; a zero step is replaced by (i / div) * delta.
linspace(start, stop, n) ==
    LET div   == n - 1
        delta == fsub(stop, start)
        step  == NpDiv(delta, IntF(div))
    IN  [i \in 1..n |->
            IF n > 1 /\ i = n THEN stop
            ELSE IF n = 1 THEN fadd(fmul(IntF(0), delta), start)
            ELSE IF Eq(step, Zero)
                 THEN fadd(fmul(NpDiv(IntF(i - 1), IntF(div)), delta), start)
            ELSE fadd(fmul(IntF(i - 1), step), start)]

\* lines 47-50: mu (the division may raise, see MuRaises below)
mu_of(T, spec) ==
    IF Le(spec.mass_eV, Zero) THEN Zero
    ELSE PyDiv(spec.mass_eV, fmul(k_B_eV_per_K, T))

\* line 52: x_min = max(mu, 1e-6)
x_min_of(mu) == PyMax(mu, C_1em6)
\* a lower bound of the grid that is not kept away from x = 0
x_min_of_NoFloor(mu) == mu
\* line 53: x_max = max(mu + 40.0, 40.0)
x_max_of(mu) == PyMax(fadd(mu, C_40), C_40)

\* lines 59-64: the occupation denominator at x
den_of(x, fermion) ==
    IF fermion THEN fadd(Exp(x), C_1)
    ELSE LET d == fsub(Exp(x), C_1)
         IN  IF Le(d, Zero) THEN Exp(x) ELSE d

\* np.trapz(f, xs)
RECURSIVE trapz(_, _, _)
trapz(f, xs, i) ==
    IF i >= Len(xs) THEN Zero
    ELSE fadd(NpDiv(fmul(fsub(xs[i + 1], xs[i]), fadd(f[i + 1], f[i])), C_2),
              trapz(f, xs, i + 1))

\* _I_species(T, spec, n_x), lines 42-68, with the arrays it builds
I_species(T, spec, n) ==
    LET mu   == mu_of(T, spec)
        xs   == linspace(x_min_of(mu), x_max_of(mu), n)
        chi  == [i \in 1..n |-> chi_s_y(NpDiv(xs[i], fmul(C_4, C_pi)), spec.spin)]
        den  == [i \in 1..n |-> den_of(xs[i], spec.fermion)]
        f    == [i \in 1..n |-> NpDiv(fmul(Pow(xs[i], 3), chi[i]), den[i])]
    IN  [mu |-> mu, x_min |-> x_min_of(mu), x_max |-> x_max_of(mu),
         xs |-> xs, den |-> den, integrand |-> f,
         I |-> fmul(IntF(spec.g), trapz(f, xs, 1))]

\* I_of_T(T, n_x): sum(...) over the catalog, starting from the int 0
RECURSIVE I_of_T(_, _, _)
I_of_T(T, n, i) ==
    IF i = 0 THEN Zero
    ELSE fadd(I_of_T(T, n, i - 1), I_species(T, species_set[i], n).I)

-----------------------------------------------------------------------------
(* The spectral efficiency as the integrator sees it                       *)

\* _I_species, lines 47-50: mu = m_eV / (k_B_eV_per_K * T) is a division of
\* Python floats, evaluated for every species with m_eV > 0.
MuRaises(T, spec) ==
    ~Le(spec.mass_eV, Zero) /\ PyDivRaises(spec.mass_eV, fmul(k_B_eV_per_K, T))

\* F_of_T(T) -> I_of_T(T) -> _I_species(T, spec) for each spec in turn.
F_of_T_Raises(T) == \E i \in 1..Len(species_set) : MuRaises(T, species_set[i])

\* F_of_T(T, n_x) = I_of_T(T, n_x=n_x)
F_of_T(T, n) == I_of_T(T, n, Len(species_set))

\* Values of the quadrature.  F_of_T computed offline from the source for the
\* catalog: F(1e3 K) = 86.84, F(1.227e12 K) = 433.47, F(1e16 K) = 450.65; it
\* is NaN when x**3 overflows (T below about 1e-91 K).
F_cold == Fin(86840833, -6)
F_T0   == Fin(43346848, -5)
F_hot  == Fin(45065023, -5)
FSpectral == {F_cold, F_T0, F_hot, NaN}
\* Values the catalog as shipped never yields (an empty or altered catalog
\* does): a vanished efficiency, one the size of the 1e-30 guard, a diverged
\* one.
F_guard == C_1em30
FAny == FSpectral \cup {Zero, F_guard, PosInf}

-----------------------------------------------------------------------------
(* evolve_trajectory, step by step                                         *)

\* a temperature that grows with the mass
T_H_Direct(Mv, T0v, M0v) == fmul(T0v, PyDiv(Mv, M0v))

\* T_H(M, T0, M0) = T0 * (M0 / M)
T_H_Raises(Mv, T0v, M0v) == PyDivRaises(M0v, Mv)
T_H(Mv, T0v, M0v) == fmul(T0v, PyDiv(M0v, Mv))

\* M**2
Sq(x) == fmul(x, x)

\* 4.0 * math.pi * M**2 / LOG2
S_of_M(Mv) == NpDiv(fmul(fmul(C_4, C_pi), Sq(Mv)), LOG2)

\* a loop that goes on below the threshold
LoopCond_Always(Mv, M0v) == TRUE

\* line 88: while M > 1e-4 * M0
LoopCond(Mv, M0v) == Gt(Mv, fmul(C_1em4, M0v))

\* line 92: dMdt = -F / (M**2 + 1e-30)
dMdt_of(F, Mv) == NpDiv(fneg(F), fadd(Sq(Mv), C_1em30))

\* a step of fixed length, whatever dM/dt is
dt_of_FixedStep(Mv, dMdt) == C_1em6

\* line 95: dt = 1e-3 * abs(M / (dMdt + 1e-30))
dt_of(Mv, dMdt) == fmul(C_1em3, fabs(NpDiv(Mv, fadd(dMdt, C_1em30))))

\* line 96: if not np.isfinite(dt) or dt <= 0: break
DtBreaks(dtv) == ~isfinite(dtv) \/ Le(dtv, Zero)

\* the Euler step with the sign of the increment lost
M_new_of_SignSlip(Mv, dMdt, dtv, M0v) ==
    PyMax(fsub(Mv, fmul(dMdt, dtv)), fmul(C_1em6, M0v))

\* the Euler step over the whole of |M / dMdt|, without the floor
M_new_of_FullStepNoFloor(Mv, dMdt, dtv, M0v) ==
    fadd(Mv, fmul(dMdt, NpDiv(dtv, C_1em3)))

\* line 100: M_new = max(M + dMdt * dt, 1e-6 * M0)
M_new_of(Mv, dMdt, dtv, M0v) == PyMax(fadd(Mv, fmul(dMdt, dtv)), fmul(C_1em6, M0v))

\* the time update with the increment dropped
t_new_of_NoAdvance(tv, dtv) == tv

\* line 101: t_new = t + dt
t_new_of(tv, dtv) == fadd(tv, dtv)

\* the entropy update with S_bh left out of dS_bh
S_rad_new_of_NoOld(S_radv, S_bh_newv, S_bhv) == fsub(S_radv, S_bh_newv)

\* lines 105-106: dS_bh = S_bh_new - S_bh;  S_rad_new = S_rad - dS_bh
S_rad_new_of(S_radv, S_bh_newv, S_bhv) == fsub(S_radv, fsub(S_bh_newv, S_bhv))

\* line 118: if len(t_list) >= params.n_steps: break
CapReached(len, n) == len >= n

VARIABLES
    M0, T0, n_steps,                                \* params
    resolution,                                     \* the resolution the caller wants
    n_x,                                            \* n_x of the last F_of_T call
    csv,                                            \* rows of the file at path
    lib_fn, lib_in, lib_out,                        \* a direct call of a function
    pc, exit,                                       \* control
    n_samples,                                      \* len(t_list)
    t, M, S_bh, S_rad, dt, F,                       \* locals of the loop
    T_arg,                                          \* the local T of line 89
    t_list, M_list, T_list, S_bh_list, S_rad_list,  \* the history
    t_evap, tau, M_over_M0, T_over_T0,              \* the result record
    idx_page, tau_page, M_page_over_M0

params  == <<M0, T0, n_steps, resolution>>
lib     == <<lib_fn, lib_in, lib_out>>
locals  == <<t, M, S_bh, S_rad>>
history == <<t_list, M_list, T_list, S_bh_list, S_rad_list>>
result  == <<t_evap, tau, M_over_M0, T_over_T0, idx_page, tau_page, M_page_over_M0>>
vars    == <<lib, csv, params, pc, exit, n_samples, n_x, locals, dt, F, T_arg, history, result>>

\* Array operations of the post-processing (numpy, elementwise).
ArrDiv(arr, d) == [i \in 1..Len(arr) |-> NpDiv(arr[i], d)]
AbsDiff(a, b)  == [i \in 1..Len(a) |-> fabs(fsub(a[i], b[i]))]

\* a scan that lets a later equal value replace the minimum
RECURSIVE ArgMinIn_LastTie(_, _, _)
ArgMinIn_LastTie(d, lo, hi) ==
    IF lo = hi THEN lo
    ELSE LET mid == (lo + hi) \div 2
             l   == ArgMinIn_LastTie(d, lo, mid)
             r   == ArgMinIn_LastTie(d, mid + 1, hi)
         IN  IF Le(d[r], d[l]) THEN r ELSE l

\* np.argmin over d[lo..hi] (1-based): the first occurrence of the minimum.
RECURSIVE ArgMinIn(_, _, _)
ArgMinIn(d, lo, hi) ==
    IF lo = hi THEN lo
    ELSE LET mid == (lo + hi) \div 2
             l   == ArgMinIn(d, lo, mid)
             r   == ArgMinIn(d, mid + 1, hi)
         IN  IF Lt(d[r], d[l]) THEN r ELSE l

\* np.argmax written for np.argmin: with S_bh - S_rad falling along the run
\* the largest |S_bh - S_rad| is at an end of the history
argmin_AsArgmax(d) ==
    IF Ge(d[1], d[Len(d)]) THEN 0 ELSE Len(d) - 1

\* int(np.argmin(d)), 0-based; numpy takes a NaN for the minimum.
argmin(d) ==
    IF \E i \in 1..Len(d) : IsNaN(d[i])
    THEN (CHOOSE i \in 1..Len(d) : IsNaN(d[i]) /\ \A j \in 1..(i - 1) : ~IsNaN(d[j])) - 1
    ELSE ArgMinIn(d, 1, Len(d)) - 1

\* toy/hole/sgen.py find_page_time(t, S_bh, S_rad): (t_page, S_page)
find_page_time(t_arr, S_bh_arr, S_rad_arr) ==
    LET diff == AbsDiff(S_bh_arr, S_rad_arr)
        idx  == argmin(diff)
    IN  <<t_arr[idx + 1], S_bh_arr[idx + 1]>>

-----------------------------------------------------------------------------
(* Inputs                                                                  *)

MaxSteps == 4
M0Values == {Fin(-(10^7), -7), Zero, M0Default, Fin(2 * 10^7, -7)}
T0Values == {Zero, T0Default}

\* FullSimParams (lines 49-51) has the fields M0, T0, n_steps and no field
\* for the resolution: what the caller wants it to be stays with the caller.
ResolutionValues == {300, NxDefault}

TypeParams(Ms, Ts, Ns, Rs) ==
    M0 \in Ms /\ T0 \in Ts /\ n_steps \in Ns /\ resolution \in Rs

\* no function has been called on its own
LibIdle == lib_fn = "none" /\ lib_in = <<>> /\ lib_out = <<>>

\* The call evolve_trajectory(params) has been made; nothing has run yet.
InitWith(Ms, Ts, Ns, Rs) ==
    /\ TypeParams(Ms, Ts, Ns, Rs)
    /\ LibIdle /\ csv = <<>> /\ n_x = 0
    /\ pc = "start" /\ exit = "none" /\ n_samples = 0
    /\ t = Unset /\ M = Unset /\ S_bh = Unset /\ S_rad = Unset
    /\ dt = Unset /\ F = Unset /\ T_arg = Unset
    /\ t_list = <<>> /\ M_list = <<>> /\ T_list = <<>>
    /\ S_bh_list = <<>> /\ S_rad_list = <<>>
    /\ t_evap = Unset /\ tau = <<>> /\ M_over_M0 = <<>> /\ T_over_T0 = <<>>
    /\ idx_page = -1 /\ tau_page = Unset /\ M_page_over_M0 = Unset

Init == InitWith(M0Values, T0Values, 1..MaxSteps, ResolutionValues)

-----------------------------------------------------------------------------
(* Actions                                                                 *)

\* An exception leaves evolve_trajectory: no record is returned.
Raise ==
    /\ pc' = "raised" /\ exit' = "raise"
    /\ UNCHANGED <<lib, csv, params, n_samples, n_x, locals, dt, F, T_arg, history, result>>

\* lines 66-85: the storage lists, the initial entropy, the locals.
Start ==
    /\ pc = "start"
    /\ IF T_H_Raises(M0, T0, M0)
       THEN Raise
       ELSE /\ t_list' = <<Zero>>
            /\ M_list' = <<M0>>
            /\ T_list' = <<T_H(M0, T0, M0)>>
            /\ S_bh_list' = <<S_of_M(M0)>>
            /\ S_rad_list' = <<Zero>>
            /\ t' = Zero /\ M' = M0 /\ S_bh' = S_of_M(M0) /\ S_rad' = Zero
            /\ n_samples' = 1
            /\ pc' = "loop"
            /\ UNCHANGED <<lib, csv, params, exit, n_x, dt, F, T_arg, result>>

\* lines 109-113, list.append(x).  The model keeps the whole history
\* (keep) or, for the 8000-step run of the defaults, only its newest sample;
\* n_samples is len(t_list) in both.
Store(keep, list, x) == IF keep THEN Append(list, x) ELSE <<x>>

\* lines 99-119 for an accepted step: the Euler step, the entropy update,
\* the appends, the advance and the step cap.
TakeStep(Fv, dMdt, dtv, keep) ==
    LET M_new     == M_new_of(M, dMdt, dtv, M0)
        t_new     == t_new_of(t, dtv)
        S_bh_new  == S_of_M(M_new)
        S_rad_new == S_rad_new_of(S_rad, S_bh_new, S_bh)
    IN  /\ t_list' = Store(keep, t_list, t_new)
        /\ M_list' = Store(keep, M_list, M_new)
        /\ T_list' = Store(keep, T_list, T_H(M_new, T0, M0))
        /\ S_bh_list' = Store(keep, S_bh_list, S_bh_new)
        /\ S_rad_list' = Store(keep, S_rad_list, S_rad_new)
        /\ n_samples' = n_samples + 1
        /\ t' = t_new /\ M' = M_new /\ S_bh' = S_bh_new /\ S_rad' = S_rad_new
        /\ T_arg' = T_H(M, T0, M0)
        /\ dt' = dtv /\ F' = Fv /\ n_x' = NxDefault
        /\ IF CapReached(n_samples + 1, n_steps)
           THEN pc' = "post" /\ exit' = "cap"
           ELSE pc' = "loop" /\ exit' = exit
        /\ UNCHANGED <<lib, csv, params, result>>

\* lines 88-119: the loop test and one pass through the body, with the value
\* F_of_T returns drawn from FS; T_arg is the temperature F_of_T is called
\* with (lines 89-90), that of the mass the step starts from.
Iterate(FS, keep) ==
    /\ pc = "loop"
    /\ IF ~LoopCond(M, M0)
       THEN /\ pc' = "post" /\ exit' = "mass"
            /\ UNCHANGED <<lib, csv, params, n_samples, n_x, locals, dt, F, T_arg, history, result>>
       ELSE IF T_H_Raises(M, T0, M0) \/ F_of_T_Raises(T_H(M, T0, M0))
       THEN Raise
       ELSE \E Fv \in FS :
              LET dMdt == dMdt_of(Fv, M)
                  dtv  == dt_of(M, dMdt)
              IN  IF DtBreaks(dtv)
                  THEN /\ pc' = "post" /\ exit' = "dt"
                       /\ T_arg' = T_H(M, T0, M0)
                       /\ dt' = dtv /\ F' = Fv /\ n_x' = NxDefault
                       /\ UNCHANGED <<lib, csv, params, n_samples, locals, history, result>>
                  ELSE TakeStep(Fv, dMdt, dtv, keep)

\* lines 121-148: normalisation, the Page point, the returned record.
Finish ==
    /\ pc = "post"
    /\ LET te   == t_list[Len(t_list)]
           taus == ArrDiv(t_list, te)
           Mn   == ArrDiv(M_list, M0)
           idx  == argmin(AbsDiff(S_bh_list, S_rad_list))
       IN  /\ t_evap' = te
           /\ tau' = taus
           /\ M_over_M0' = Mn
           /\ T_over_T0' = ArrDiv(T_list, T0)
           /\ idx_page' = idx
           /\ tau_page' = taus[idx + 1]
           /\ M_page_over_M0' = Mn[idx + 1]
    /\ pc' = "done"
    /\ UNCHANGED <<lib, csv, params, exit, n_samples, n_x, locals, dt, F, T_arg, history>>

\* f"{x:.8e}": the text of a float, nine significant digits and a two- or
\* three-digit exponent, or "nan" / "inf" / "-inf".
FormatE8(x) ==
    IF x.k = "nan" THEN [text |-> "nan", digits |-> 0, exp |-> 0]
    ELSE IF x.k = "inf"
         THEN [text |-> IF x.m < 0 THEN "-inf" ELSE "inf", digits |-> 0, exp |-> 0]
    ELSE IF x.m = 0 THEN [text |-> "d.dddddddde+XX", digits |-> 0, exp |-> 0]
    ELSE [text |-> "d.dddddddde+XX", digits |-> x.m * 10, exp |-> x.e + 7]

\* line 172
Header == <<"tau", "M_over_M0", "T_over_T0", "S_bits", "bits_emitted">>

\* lines 174-180: the row written for index i (1-based here)
Row(i) ==
    << FormatE8(tau[i]), FormatE8(M_over_M0[i]), FormatE8(T_over_T0[i]),
       FormatE8(S_bh_list[i]), FormatE8(S_rad_list[i]) >>

\* a loop that stops one row early
RowCount_DropLast(n) == n - 1

\* line 173: for i in range(len(tau))
RowCount(n) == n

\* generate_trajectory, lines 162-180, once evolve_trajectory has returned
\* (an exception of evolve_trajectory leaves it before the file is opened).
WriteCsv ==
    /\ pc = "done" /\ csv = <<>>
    /\ csv' = <<Header>> \o [i \in 1..RowCount(Len(tau)) |-> Row(i)]
    /\ UNCHANGED <<lib, params, pc, exit, n_samples, n_x, locals, dt, F, T_arg, history, result>>

Next == Start \/ Iterate(FAny, TRUE) \/ Finish \/ WriteCsv

Spec == Init /\ [][Next]_vars

-----------------------------------------------------------------------------
(* Runs with the efficiency the shipped catalog yields                     *)

\* F_of_T is a function of T alone and moves between F_cold and F_hot over
\* all temperatures; along one run it is held at the value of the run's
\* first evaluation.
FHeld == IF F = Unset THEN FSpectral \ {NaN} ELSE {F}

NextSpectral == Start \/ Iterate(FHeld, TRUE) \/ Finish

\* Long runs: enough steps to pass the Page point (347 steps of 0.1 %).
LongSteps == 450
InitSpectral == InitWith({Fin(-(10^7), -7), M0Default}, {T0Default}, {2, 3, LongSteps}, {NxDefault})
SpecSpectral == InitSpectral /\ [][NextSpectral]_vars

\* Runs long enough for the roundings of two efficiencies to part, and runs
\* of a few steps, at two normalisation temperatures.
TwinSteps == 540
InitTwin == InitWith({M0Default}, {T0Default, Fin(10^7, 3)}, {3, TwinSteps}, {NxDefault})
SpecTwin == InitTwin /\ [][NextSpectral]_vars

\* The run of FullSimParams(): M0 = 1.0, T0 = 1.227e12, n_steps = 8000,
\* with the history kept as its newest sample and its length.
NextDefault == Start \/ Iterate(FHeld, FALSE) \/ Finish
InitDefault == InitWith({M0Default}, {T0Default}, {NStepsDefault}, {NxDefault})
SpecDefault == InitDefault /\ [][NextDefault]_vars

\* Runs allowed enough steps to evaporate: 9206 steps of 0.1 % bring M below
\* 1e-4 * M0, so the loop ends by its mass test and not by the cap.
EvapSteps == 9300
InitEvap == InitWith({M0Default}, {T0Default}, {EvapSteps}, {NxDefault})
SpecEvap == InitEvap /\ [][NextDefault]_vars

-----------------------------------------------------------------------------
(* toy/hole: sgen.py find_qes_switch_time, bits.py B_acc_bits              *)

\* np.sign(x): -1.0, 0.0, 1.0, or nan for nan
np_sign(x) == IF IsNaN(x) THEN NaN ELSE IntF(ISgn(x.m))

\* sgen.py line 102: np.where(sign[:-1] * sign[1:] <= 0)[0], 1-based here
SwitchIndices(sign) ==
    {i \in 1..(Len(sign) - 1) : Le(fmul(sign[i], sign[i + 1]), Zero)}

\* the last of the indices
FirstIndex_Last(idx) == CHOOSE i \in idx : \A j \in idx : j <= i

\* sgen.py line 107: i = int(idx[0])
FirstIndex(idx) == CHOOSE i \in idx : \A j \in idx : i <= j

\* sgen.py lines 96-115
find_qes_switch_time(t_arr, S_no_arr, S_island_arr) ==
    LET diff == [i \in 1..Len(S_no_arr) |-> fsub(S_no_arr[i], S_island_arr[i])]
        sign == [i \in 1..Len(diff) |-> np_sign(diff[i])]
        idx  == SwitchIndices(sign)
    IN  IF idx = {} THEN NaN
        ELSE LET i  == FirstIndex(idx)
                 t0 == t_arr[i]
                 t1 == t_arr[i + 1]
                 d0 == diff[i]
                 d1 == diff[i + 1]
             IN  IF Eq(d1, d0) THEN t0
                 ELSE fadd(t0, fmul(NpDiv(fneg(d0), fsub(d1, d0)), fsub(t1, t0)))

\* bits.py line 31: the profiles chi_func of the model: the default
\* lambda M: 1.0, a vanishing one, and chi(M) = M
ChiFuncs == {"one", "zero", "M"}
ApplyChi(chi_func, m) ==
    IF chi_func = "one" THEN C_1 ELSE IF chi_func = "zero" THEN Zero ELSE m

\* bits.py lines 43-46: if M[0] < M[-1]: raise ValueError
B_acc_Raises(Marr) == Lt(Marr[1], Marr[Len(Marr)])

\* bits.py lines 50-53: I[0] = 0, I[i] = I[i-1] + 0.5 * (h[i-1] + h[i]) * dM
RECURSIVE B_acc_I(_, _)
B_acc_I(Marr, h) ==
    IF Len(Marr) = 1 THEN <<Zero>>
    ELSE LET n    == Len(Marr)
             prev == B_acc_I(SubSeq(Marr, 1, n - 1), SubSeq(h, 1, n - 1))
             dM   == fsub(Marr[n - 1], Marr[n])
         IN  Append(prev, fadd(prev[n - 1],
                               fmul(fmul(C_half, fadd(h[n - 1], h[n])), dM)))

\* bits.py lines 42-55 for a grid that is accepted
B_acc_bits(Marr, chi_func) ==
    LET h == [i \in 1..Len(Marr) |-> fmul(ApplyChi(chi_func, Marr[i]), Marr[i])]
        I == B_acc_I(Marr, h)
        c == NpDiv(fmul(Fin(8 * 10^7, -7), C_pi), LOG2)
    IN  [i \in 1..Len(Marr) |-> fmul(c, I[i])]

-----------------------------------------------------------------------------
(* Functions called on their own                                           *)

evolve == <<csv, params, pc, exit, n_samples, n_x, locals, dt, F, T_arg, history, result>>

\* Frequencies: 0, the grid's lowest x / (4 pi), values around 1, the top of
\* a massless grid (40 / (4 pi)) and the frequencies of cold temperatures.
YValues == {Zero, Fin(79577472, -15), C_half, C_1, Fin(31830989, -7),
            Fin(10^7, 3), Fin(10^7, 53), Fin(10^7, 93), Fin(10^7, 193)}
\* Spins: the four supported ones, other values, values within and just
\* outside the 1e-9 tolerance, and NaN.
SpinValues == {Zero, C_half, C_1, C_2, Fin(15 * 10^6, -7), Fin(3 * 10^7, -7),
               fneg(C_half), fneg(C_1), Fin(10^7, -17), Fin(-(10^7), -17),
               Fin(10^7, -15), NaN}
\* Temperatures (K): 1e-320, 1e-100, 1e-20, 1e5, 1e10, T0, 1e16.
TValues == {Fin(10^7, -327), Fin(10^7, -107), Fin(10^7, -27), Fin(10^7, -2),
            Fin(10^7, 3), T0Default, Fin(10^7, 9)}
\* Grid sizes n_x of the model's quadratures: 1..MaxNx.
MaxNx == 3

\* Arrays of the toy functions have up to MaxLen elements.
MaxLen == 3
\* a time grid, ascending and unevenly spaced
TimeGrid == <<Zero, Fin(15 * 10^6, -7), C_2>>
\* entropies of the two branches
SNoValues == {Zero, C_1, Fin(3 * 10^7, -7)}
SIslandValues == {Zero, C_1, C_2, NaN}
\* masses of a grid
MassValues == {Zero, C_1, C_2, Fin(3 * 10^7, -7)}
SeqsOf(S, n) == [1..n -> S]

\* find_qes_switch_time(t, S_no, S_island) on arrays of equal length
Call_find_qes_switch_time ==
    /\ lib_fn = "none"
    /\ \E n \in 0..MaxLen :
          \E a \in SeqsOf(SNoValues, n), b \in SeqsOf(SIslandValues, n) :
             /\ lib_fn' = "find_qes_switch_time"
             /\ lib_in' = [t |-> SubSeq(TimeGrid, 1, n), S_no |-> a, S_island |-> b]
             /\ lib_out' = find_qes_switch_time(SubSeq(TimeGrid, 1, n), a, b)
    /\ UNCHANGED evolve

\* B_acc_bits(M_array, M0, chi_func) on a non-empty array
Call_B_acc_bits ==
    /\ lib_fn = "none"
    /\ \E n \in 1..MaxLen :
          \E Marr \in SeqsOf(MassValues, n), chi_func \in ChiFuncs :
             /\ lib_fn' = "B_acc_bits"
             /\ lib_in' = [M_array |-> Marr, chi_func |-> chi_func]
             /\ lib_out' = IF B_acc_Raises(Marr)
                           THEN [raised |-> "ValueError", B |-> <<>>]
                           ELSE [raised |-> "no", B |-> B_acc_bits(Marr, chi_func)]
    /\ UNCHANGED evolve

\* chi_s_y(y, s) on an array y of two frequencies in ascending order
Call_chi_s_y ==
    /\ lib_fn = "none"
    /\ \E y1 \in YValues, y2 \in YValues, s \in SpinValues :
          /\ Le(y1, y2)
          /\ lib_fn' = "chi_s_y"
          /\ lib_in' = [y |-> <<y1, y2>>, s |-> s]
          /\ lib_out' = <<chi_s_y(y1, s), chi_s_y(y2, s)>>
    /\ UNCHANGED evolve

\* _I_species(T, spec, n_x)
Call_I_species ==
    /\ lib_fn = "none"
    /\ \E T \in TValues, i \in 1..Len(species_set), n \in 1..MaxNx :
          /\ lib_fn' = "_I_species"
          /\ lib_in' = [T |-> T, spec |-> species_set[i], n_x |-> n]
          /\ lib_out' = IF MuRaises(T, species_set[i])
                        THEN [raised |-> "ZeroDivisionError"]
                        ELSE [raised |-> "no"] @@ I_species(T, species_set[i], n)
    /\ UNCHANGED evolve

\* F_of_T(T, n_x)
Call_F_of_T ==
    /\ lib_fn = "none"
    /\ \E T \in TValues, n \in 1..MaxNx :
          /\ lib_fn' = "F_of_T"
          /\ lib_in' = [T |-> T, n_x |-> n]
          /\ lib_out' = IF F_of_T_Raises(T)
                        THEN [raised |-> "ZeroDivisionError"]
                        ELSE [raised |-> "no", F |-> F_of_T(T, n)]
    /\ UNCHANGED evolve

NextLib ==
    \/ Call_chi_s_y \/ Call_I_species \/ Call_F_of_T
    \/ Call_find_qes_switch_time \/ Call_B_acc_bits

InitLib == InitWith({M0Default}, {T0Default}, {NStepsDefault}, {NxDefault})
SpecLib == InitLib /\ [][NextLib]_vars

-----------------------------------------------------------------------------
(* Properties                                                              *)

Last(s) == s[Len(s)]
One == Fin(10^7, -7)
Returned == pc = "done"
IsDefaultRun == M0 = M0Default /\ T0 = T0Default /\ n_steps = NStepsDefault

\* C1: the run of the default parameters leaves the loop through the mass
\* condition, not the step cap: the returned history has fewer than n_steps
\* samples and its last M_over_M0 is <= 1e-4 (plus 1e-8 of tolerance).
C1_DefaultRunEndsByMass ==
    (Returned /\ IsDefaultRun) =>
        /\ exit = "mass"
        /\ n_samples < n_steps
        /\ Le(Last(M_over_M0), Fin(10001000, -11))

\* C11: in every state of the stepping loop the five history lists have the
\* same length; the five sequences of the returned record have equal length
\* and index i of each describes the same step; generate_trajectory writes
\* the header and then one row per sample, in step order.
SameStep(i) ==
    /\ tau[i] = NpDiv(t_list[i], t_evap)
    /\ M_over_M0[i] = NpDiv(M_list[i], M0)
    /\ T_over_T0[i] = NpDiv(T_H(M_list[i], T0, M0), T0)
    /\ S_bh_list[i] = S_of_M(M_list[i])
    /\ (i > 1 => S_rad_list[i] = S_rad_new_of(S_rad_list[i - 1], S_bh_list[i], S_bh_list[i - 1]))
C11_AlignedOutput ==
    /\ pc \in {"loop", "post", "done"} =>
          /\ Len(t_list) >= 1
          /\ Len(M_list) = Len(t_list) /\ Len(T_list) = Len(t_list)
          /\ Len(S_bh_list) = Len(t_list) /\ Len(S_rad_list) = Len(t_list)
    /\ Returned =>
          /\ Len(tau) = Len(t_list) /\ Len(M_over_M0) = Len(t_list)
          /\ Len(T_over_T0) = Len(t_list)
          /\ \A i \in 1..Len(tau) : SameStep(i)
    /\ csv # <<>> =>
          /\ Returned
          /\ Len(csv) = 1 + Len(tau)
          /\ csv[1] = Header
          /\ \A i \in 1..Len(tau) : csv[i + 1] = Row(i)

\* a file written for a run of three steps
C11_Witness ==
    /\ Len(csv) = 5 /\ Len(tau) = 4
    /\ csv[5][2] = FormatE8(Last(M_over_M0))
    /\ Lt(M_over_M0[4], M_over_M0[1])

\* C12: for every supported spin s in {0, 1/2, 1, 2} and every y >= 0,
\* chi_s_y(y, s) is non-decreasing in y and bounded above by 27*pi/4, with
\* chi_s_y(0, 0) = 4*pi and chi_s_y(0, s) = 0 for s in {1/2, 1, 2}.
SupportedSpins == {Zero, C_half, C_1, C_2}
C12_GreybodyBounds ==
    (lib_fn = "chi_s_y" /\ lib_in.s \in SupportedSpins) =>
        /\ Le(lib_out[1], lib_out[2])
        /\ \A i \in 1..2 :
              /\ Le(lib_out[i], chi_high)
              /\ lib_in.y[i] = Zero =>
                    lib_out[i] = (IF lib_in.s = Zero THEN chi_low ELSE Zero)

\* the s = 1/2 result (27*pi/4) * y^2 / (1 + y^2)
HalfSpinResult(y) == fmul(chi_high, Saturation(y, 2))
\* the result of exponent p, and of the scalar formula
PowerResult(y, p) == fmul(chi_high, Saturation(y, p))
ScalarResult(y) == fadd(chi_low, fmul(fsub(chi_high, chi_low), Saturation(y, 2)))
Near(s, c) == Lt(fabs(fsub(s, c)), C_1em9)

\* the supported spins are dispatched as stated (both forms of C13)
SupportedDispatch ==
    \A i \in 1..2 :
        /\ lib_in.s = Zero => lib_out[i] = ScalarResult(lib_in.y[i])
        /\ lib_in.s = C_half => lib_out[i] = PowerResult(lib_in.y[i], 2)
        /\ lib_in.s = C_1 => lib_out[i] = PowerResult(lib_in.y[i], 4)
        /\ lib_in.s = C_2 => lib_out[i] = PowerResult(lib_in.y[i], 6)

\* C13 as stated: s = 0 uses the scalar formula, 1/2, 1, 2 the exponents
\* 2, 4, 6, and every other spin value returns exactly the s = 1/2 result.
C13_EveryOtherSpinFallsBack ==
    lib_fn = "chi_s_y" =>
        /\ SupportedDispatch
        /\ lib_in.s \notin SupportedSpins =>
              \A i \in 1..2 : lib_out[i] = HalfSpinResult(lib_in.y[i])

\* C13 as amended: the spins are matched within 1e-9: a spin within 1e-9 of
\* 0 (1, 2) gets the scalar formula (exponent 4, 6), and every spin that is
\* not within 1e-9 of 0, 1 or 2 (negative ones and NaN included) gets the
\* s = 1/2 result; chi_s_y returns a value for every spin.
C13_SpinDispatchWithinTolerance ==
    lib_fn = "chi_s_y" =>
        /\ SupportedDispatch
        /\ \A i \in 1..2 :
              /\ Near(lib_in.s, Zero) => lib_out[i] = ScalarResult(lib_in.y[i])
              /\ (~Near(lib_in.s, Zero) /\ ~Near(lib_in.s, C_1) /\ ~Near(lib_in.s, C_2))
                    => lib_out[i] = HalfSpinResult(lib_in.y[i])
              /\ lib_out[i].k \in {"fin", "nan"}

\* an unsupported negative spin, at a frequency where the exponents differ
C13_Witness ==
    /\ lib_fn = "chi_s_y" /\ lib_in.s = fneg(C_1) /\ lib_in.y[1] = C_half
    /\ lib_out[1] = HalfSpinResult(C_half)
    /\ lib_out[1] # PowerResult(C_half, 4)

\* C14: for every T > 0 and every entry of species_set the occupation
\* denominator is > 0 at every grid point, the integrand is >= 0, and
\* _I_species, I_of_T and F_of_T return a finite value >= 0.
FiniteNonNeg(x) == isfinite(x) /\ Ge(x, Zero)
C14_SpectralIntegralFinite ==
    /\ (lib_fn = "_I_species" /\ Gt(lib_in.T, Zero)) =>
          /\ lib_out.raised = "no"
          /\ \A i \in 1..lib_in.n_x :
                Gt(lib_out.den[i], Zero) /\ Ge(lib_out.integrand[i], Zero)
          /\ FiniteNonNeg(lib_out.I)
    /\ (lib_fn = "F_of_T" /\ Gt(lib_in.T, Zero)) =>
          (lib_out.raised = "no" /\ FiniteNonNeg(lib_out.F))

\* C15: every spectral evaluation F(T) made during stepping uses the
\* resolution the caller configured (default 600).
C15_ResolutionHonoured == n_x # 0 => n_x = resolution

C17_GridDomainNonDegenerate ==
    (lib_fn = "_I_species" /\ Gt(lib_in.T, Zero)) =>
        /\ lib_out.raised = "no"
        /\ Ge(lib_out.mu, Zero)
        /\ lib_out.x_min = PyMax(lib_out.mu, C_1em6)
        /\ lib_out.x_max = PyMax(fadd(lib_out.mu, C_40), C_40)
        /\ Gt(lib_out.x_min, Zero)
        /\ Lt(lib_out.x_min, lib_out.x_max)

\* diff = S_no - S_island of the call, and the pairs with a sign change
QesDiff(i) == fsub(lib_in.S_no[i], lib_in.S_island[i])
QesPairs ==
    {i \in 1..(Len(lib_in.t) - 1) :
        /\ ~IsNaN(QesDiff(i)) /\ ~IsNaN(QesDiff(i + 1))
        /\ Sign(QesDiff(i)) * Sign(QesDiff(i + 1)) <= 0}
\* r is a zero of the line through (t0, d0) and (t1, d1), up to rounding
InterpolatesZero(r, t0, t1, d0, d1) ==
    Le(fabs(fadd(fmul(d0, fsub(t1, r)), fmul(d1, fsub(r, t0)))),
       fmul(Fin(10^7, -13), fmul(fadd(fabs(d0), fabs(d1)), fsub(t1, t0))))

\* C18: find_qes_switch_time returns NaN exactly when no adjacent pair of
\* samples of diff has sign(diff[i]) * sign(diff[i+1]) <= 0; otherwise, for
\* the first such i, it returns a time in [t[i], t[i+1]] at which the
\* linear interpolation of diff is zero (t[i] itself when diff[i] = diff[i+1]).
C18_QesSwitchTime ==
    lib_fn = "find_qes_switch_time" =>
        /\ IsNaN(lib_out) <=> (QesPairs = {})
        /\ QesPairs # {} =>
              LET i == CHOOSE j \in QesPairs : \A k \in QesPairs : j <= k
              IN  /\ Ge(lib_out, lib_in.t[i]) /\ Le(lib_out, lib_in.t[i + 1])
                  /\ Eq(QesDiff(i), QesDiff(i + 1)) => lib_out = lib_in.t[i]
                  /\ ~Eq(QesDiff(i), QesDiff(i + 1)) =>
                        InterpolatesZero(lib_out, lib_in.t[i], lib_in.t[i + 1],
                                         QesDiff(i), QesDiff(i + 1))

\* two sign changes, the first one strictly inside its interval
C18_Witness ==
    /\ lib_fn = "find_qes_switch_time" /\ Cardinality(QesPairs) = 2
    /\ Gt(lib_out, lib_in.t[1]) /\ Lt(lib_out, lib_in.t[2])

\* a grid that never increases from one element to the next
NonIncreasing(a) == \A i \in 1..(Len(a) - 1) : Ge(a[i], a[i + 1])
NonDecreasing(a) == \A i \in 1..(Len(a) - 1) : Le(a[i], a[i + 1])

\* C19: B_acc_bits raises ValueError, and returns no array, for every
\* M_array that is not non-increasing from its first element; for every
\* grid it accepts and every profile chi >= 0 the returned array starts at
\* 0 and is non-decreasing in the index.
C19_AccessibleBitsGuard ==
    lib_fn = "B_acc_bits" =>
        /\ ~NonIncreasing(lib_in.M_array) =>
              (lib_out.raised = "ValueError" /\ lib_out.B = <<>>)
        /\ lib_out.raised = "no" =>
              (lib_out.B[1] = Zero /\ NonDecreasing(lib_out.B))

\* lines 92-100: the mass after one step from Mv at efficiency Fv
StepMass(Fv, Mv, M0v) ==
    M_new_of(Mv, dMdt_of(Fv, Mv), dt_of(Mv, dMdt_of(Fv, Mv)), M0v)

\* The masses of a second run that differs from the first only in the
\* efficiency, here F_T0 at every step: the k masses that follow Mv.
RECURSIVE TwinSeq(_, _)
TwinJoin(left, k) == left \o TwinSeq(left[Len(left)], k)
TwinSeq(Mv, k) ==
    IF k = 1 THEN <<StepMass(F_T0, Mv, M0)>>
    ELSE TwinJoin(TwinSeq(Mv, k \div 2), k - (k \div 2))
\* the n masses the second run records
TwinMasses(n) == IF n = 1 THEN <<M0>> ELSE <<M0>> \o TwinSeq(M0, n - 1)

\* its bits_emitted at the indices lo..hi of its S_bits, prev being the
\* value at lo - 1
RECURSIVE TwinSRadSeq(_, _, _, _)
TwinSRadJoin(left, Sb, mid, hi) == left \o TwinSRadSeq(left[Len(left)], Sb, mid + 1, hi)
TwinSRadSeq(prev, Sb, lo, hi) ==
    IF lo = hi THEN <<S_rad_new_of(prev, Sb[lo], Sb[lo - 1])>>
    ELSE TwinSRadJoin(TwinSRadSeq(prev, Sb, lo, (lo + hi) \div 2), Sb, (lo + hi) \div 2, hi)
TwinSRad(Sb) == IF Len(Sb) = 1 THEN <<Zero>> ELSE <<Zero>> \o TwinSRadSeq(Zero, Sb, 2, Len(Sb))
TwinSBits(Mt) == [i \in 1..Len(Mt) |-> S_of_M(Mt[i])]

\* |a - b| <= n * 1e-7 * |b|: n units in the last place of an 8-digit float
WithinUlps(a, b, n) ==
    Le(fabs(fsub(a, b)), fmul(fmul(IntF(n), Fin(10^7, -14)), fabs(b)))
C_999 == Fin(99900000, -8)         \* 1 - 1e-3

TwinCase == Returned /\ Gt(M0, Zero) /\ exit = "cap" /\ F \in {F_cold, F_T0, F_hot}

\* the first run's sequences and Page index are those of the second
IdenticalTo(Mt, Sb, Sr) ==
    /\ M_over_M0 = ArrDiv(Mt, M0)
    /\ S_bh_list = Sb
    /\ S_rad_list = Sr
    /\ idx_page = argmin(AbsDiff(Sb, Sr))
IdenticalToS(Mt, Sb) == IdenticalTo(Mt, Sb, TwinSRad(Sb))
IdenticalToM(Mt) == IdenticalToS(Mt, TwinSBits(Mt))

\* C20 as stated: with F > 0 every step multiplies M by the same factor, so
\* two runs that differ only in T0 or in the values of F produce identical
\* M_over_M0, S_bits and bits_emitted sequences and the same Page index.
C20_MassTraceIdentical ==
    TwinCase => IdenticalToM(TwinMasses(Len(M_list)))

\* the sequences agree up to the accumulated rounding
AgreesWith(Mt, Sb, Sr) ==
    /\ Len(Mt) = Len(M_list)
    /\ \A i \in 1..Len(M_list) :
          /\ WithinUlps(M_over_M0[i], NpDiv(Mt[i], M0), i - 1)
          /\ WithinUlps(S_bh_list[i], Sb[i], 3 * (i - 1))
          /\ Le(fabs(fsub(S_rad_list[i], Sr[i])),
                fmul(fmul(IntF(3 * (i - 1)), Fin(10^7, -14)), Sb[1]))
          /\ i > 1 => WithinUlps(M_list[i], fmul(C_999, M_list[i - 1]), 2)
    /\ idx_page = argmin(AbsDiff(Sb, Sr))
AgreesWithS(Mt, Sb) == AgreesWith(Mt, Sb, TwinSRad(Sb))
AgreesWithM(Mt) == AgreesWithS(Mt, TwinSBits(Mt))

\* C20 as amended: every step multiplies M by 1 - 1e-3 up to rounding, so
\* the two runs agree up to the accumulated rounding: at index i (0-based)
\* M_over_M0 within i units in the last place, S_bits within 3*i, and
\* bits_emitted within 3*i units in the last place of S_bits[0]; the Page
\* index is the same.
C20_MassTraceAgreesWithinRounding ==
    TwinCase => AgreesWithM(TwinMasses(Len(M_list)))

\* a run at another efficiency whose masses have parted from the twin's
PartedFrom(Mt) == Last(M_list) # Last(Mt) /\ WithinUlps(Last(M_list), Last(Mt), Len(Mt))
C20_Witness ==
    /\ TwinCase /\ F # F_T0 /\ Len(M_list) = TwinSteps /\ idx_page > 0
    /\ PartedFrom(TwinMasses(Len(M_list)))

\* C21: only the last sample can be evaporated: a sample is appended only
\* when the newest recorded mass, the one the step is taken from, is above
\* 1e-4 * M0; so every recorded sample except the last is above the
\* threshold, and after a sample at or below it nothing more is appended.
C21_OnlyLastSampleEvaporated ==
    [][(pc = "loop" /\ n_samples' > n_samples) =>
          /\ M = Last(M_list)
          /\ Gt(M, fmul(C_1em4, M0))
          /\ n_samples' = n_samples + 1]_vars

\* a run that ended by its mass test on a recorded sample at or below the
\* threshold, after more than nine thousand steps
C21_Witness ==
    /\ Returned /\ exit = "mass" /\ n_samples > 9000 /\ n_samples < EvapSteps
    /\ Gt(M0, Zero)
    /\ Le(Last(M_list), fmul(C_1em4, M0))
    /\ Gt(Last(M_list), fmul(C_1em6, M0))

\* a returned trajectory of positive M0 and T0
C22_Case == Returned /\ Gt(M0, Zero) /\ Gt(T0, Zero)

\* C22 as stated: at every recorded index T_over_T0[i] * M_over_M0[i] = 1.
C22_InverseMassExact ==
    C22_Case => \A i \in 1..Len(M_over_M0) :
                   fmul(T_over_T0[i], M_over_M0[i]) = One

\* the index (1-based) of the recorded mass the last evaluation of F started
\* from: the newest one when the loop broke on dt, the one before otherwise
PreStepIndex == IF exit = "dt" THEN Len(M_list) ELSE Len(M_list) - 1

\* C22 as amended: at every recorded index T_over_T0[i] * M_over_M0[i] is 1
\* within three units in the last place, and at index 0 both factors are
\* exactly 1; every recorded temperature is T_H of the mass recorded with
\* it (the post-step mass), and F was last evaluated at T_H of the mass the
\* step started from.
C22_InverseMassWithinRounding ==
    /\ (pc \in {"loop", "post", "done"} /\ Gt(M0, Zero) /\ Gt(T0, Zero)) =>
          /\ Len(T_list) = Len(M_list)
          /\ \A i \in 1..Len(M_list) : T_list[i] = T_H(M_list[i], T0, M0)
          /\ (F = Unset) = (T_arg = Unset)
          /\ T_arg # Unset => T_arg = T_H(M_list[PreStepIndex], T0, M0)
    /\ C22_Case =>
          /\ Len(T_over_T0) = Len(M_over_M0)
          /\ T_over_T0[1] = One /\ M_over_M0[1] = One
          /\ \A i \in 1..Len(M_over_M0) :
                WithinUlps(fmul(T_over_T0[i], M_over_M0[i]), One, 3)

\* a returned trajectory of several steps in which some product is not
\* exactly 1 and the last step was taken from a mass other than the last
\* recorded one
C22_Witness ==
    /\ C22_Case /\ Len(M_list) >= 3 /\ exit = "cap"
    /\ \E i \in 1..Len(M_over_M0) : fmul(T_over_T0[i], M_over_M0[i]) # One
    /\ T_arg = T_list[Len(T_list) - 1]
    /\ T_arg # Last(T_list)
    /\ Lt(Last(M_over_M0), One) /\ Gt(Last(T_over_T0), One)

\* C3: for every n_steps >= 1 the number of recorded samples never exceeds
\* n_steps, in the loop and in the returned record.
C3_SamplesWithinCap ==
    n_steps >= 1 =>
        (Len(t_list) <= n_steps /\ Len(tau) <= n_steps /\ n_samples = Len(t_list))

\* C4: whenever control leaves the stepping loop, one of the three stopping
\* conditions holds: M <= 1e-4 * M0, the dt just computed is non-finite or
\* <= 0, or the history length is >= n_steps.
C4_ExitHasStoppingCondition ==
    [][(pc = "loop" /\ pc' # "loop") =>
          \/ Le(M', fmul(C_1em4, M0'))
          \/ (exit' = "dt" /\ DtBreaks(dt'))
          \/ Len(t_list') >= n_steps']_vars

\* C5: a pass of the loop in which F(T) came back 0 or non-finite computes a
\* dt that is non-finite or <= 0 and leaves the loop without appending.
Degenerate(Fv) == Fv = Zero \/ ~isfinite(Fv)
C6_NeverRaises == pc # "raised"

\* C8: with M0 > 0 and F >= 0 the returned M_over_M0 never increases from
\* one index to the next; S_bits never increases, bits_emitted never
\* decreases and is >= 0.
C8_MassNonIncreasing ==
    (Returned /\ Gt(M0, Zero)) =>
        /\ \A i \in 1..(Len(M_over_M0) - 1) :
              /\ Le(M_over_M0[i + 1], M_over_M0[i])
              /\ Le(S_bh_list[i + 1], S_bh_list[i])
              /\ Ge(S_rad_list[i + 1], S_rad_list[i])
        /\ \A i \in 1..Len(S_rad_list) : Ge(S_rad_list[i], Zero)

\* a returned run of M0 > 0 whose mass fell at one step and stayed at another
C8_Witness ==
    /\ Returned /\ Gt(M0, Zero) /\ Len(M_over_M0) >= 3
    /\ \E i \in 1..(Len(M_over_M0) - 1) : Lt(M_over_M0[i + 1], M_over_M0[i])
    /\ \E i \in 1..(Len(M_over_M0) - 1) : Eq(M_over_M0[i + 1], M_over_M0[i])

\* |S_bits[i] - bits_emitted[i]| of the recorded history
PageDiff == AbsDiff(S_bh_list, S_rad_list)

\* C9: the index behind tau_page and M_page_over_M0 is the smallest index at
\* which |S_bits - bits_emitted| takes its minimum over the whole history,
\* and find_page_time picks the same index on the same arrays.
C9_PageIndexIsFirstMinimum ==
    Returned =>
        /\ idx_page \in 0..(Len(S_bh_list) - 1)
        /\ \A j \in 1..Len(PageDiff) : Le(PageDiff[idx_page + 1], PageDiff[j])
        /\ \A j \in 1..idx_page : Gt(PageDiff[j], PageDiff[idx_page + 1])
        /\ tau_page = tau[idx_page + 1]
        /\ M_page_over_M0 = M_over_M0[idx_page + 1]
        /\ find_page_time(tau, S_bh_list, S_rad_list)
              = <<tau[idx_page + 1], S_bh_list[idx_page + 1]>>

\* a returned history whose minimum is taken at several indices, the Page
\* index being the first of them and not index 0
C9_Witness ==
    /\ Returned /\ idx_page >= 1
    /\ \E j \in (idx_page + 2)..Len(PageDiff) : Eq(PageDiff[j], PageDiff[idx_page + 1])

\* S_bits[i] + bits_emitted[i] - S_bits[0], computed as the program would
EntropyDefect(i) == fsub(fadd(S_bh_list[i], S_rad_list[i]), S_bh_list[1])
\* n units in the last place of S_bits[0]
Ulps(n) == RoundNorm(n, S_bh_list[1].e)

\* C2 as stated: at every recorded index, in the loop and in the returned
\* record, S_bits[i] + bits_emitted[i] equals S_bits[0] = 4*pi*M0^2/ln2.
C2_EntropySumExact ==
    \A i \in 1..Len(S_bh_list) :
        /\ Eq(EntropyDefect(i), Zero)
        /\ S_bh_list[1] = S_of_M(M0)

\* C2 as amended: the sum equals S_bits[0] up to the rounding of the float
\* updates: at index i (0-based) it is off by at most i units in the last
\* place of S_bits[0], and the locals S_bh, S_rad are the last recorded pair.
\* (The lists only grow: in the loop the newest index is the one to check.)
WithinRounding(i) == Le(fabs(EntropyDefect(i)), Ulps(i - 1))
C2_EntropySumWithinRounding ==
    /\ Len(S_bh_list) > 0 =>
          (WithinRounding(Len(S_bh_list)) /\ S_bh_list[1] = S_of_M(M0))
    /\ Returned => \A i \in 1..Len(S_bh_list) : WithinRounding(i)
    /\ pc \in {"loop", "post", "done"} =>
          (S_bh = Last(S_bh_list) /\ S_rad = Last(S_rad_list))

\* a history in which radiation entropy has been emitted and the sum has
\* drifted from S_bits[0] by rounding
C2_Witness ==
    /\ Returned /\ Len(S_bh_list) >= 3
    /\ Gt(Last(S_rad_list), Zero)
    /\ \E i \in 1..Len(S_bh_list) : ~Eq(EntropyDefect(i), Zero)

TauNormalised ==
    /\ tau[1] = Zero
    /\ Last(tau) = One
    /\ \A i \in 1..(Len(tau) - 1) : Lt(tau[i], tau[i + 1])

PageInterior == Gt(tau_page, Zero) /\ Lt(tau_page, One)
\* |S_bits - bits_emitted| at the Page index is no larger than the entropy
\* change of a step next to it
PageWithinOneStep ==
    LET i == idx_page + 1
    IN  \/ i > 1 /\ Le(PageDiff[i], fabs(fsub(S_bh_list[i], S_bh_list[i - 1])))
        \/ i < Len(S_bh_list)
             /\ Le(PageDiff[i], fabs(fsub(S_bh_list[i + 1], S_bh_list[i])))
\* a sample with S_bits <= bits_emitted was recorded before the last one
PassedPagePoint ==
    \E j \in 1..(Len(S_bh_list) - 1) : Le(S_bh_list[j], S_rad_list[j])

=============================================================================
